---- MODULE Spec2Model ----
(***************************************************************************)
(* Verification model of src/src/index.js: the Connect component, its      *)
(* stateful selector (makeSelectorStateful) and the way it drives its      *)
(* Subscription node through the component lifecycle.                      *)
(*                                                                         *)
(* The program is single threaded.  A store dispatch runs a synchronous    *)
(* chain of calls: the store calls its listeners, a listener               *)
(* (Connect.onStateChange) may call notifyNestedSubs, which calls the      *)
(* listeners of the nested components, and so on.  The chain is modelled   *)
(* in small steps with an explicit call stack: a frame is one running      *)
(* notification loop (its snapshot of listeners and its position).  Only   *)
(* the top frame runs.                                                      *)
(*                                                                         *)
(* ./utils/Subscription and ./connect/selectorFactory are imported by      *)
(* index.js but are not part of the sources at hand; they are modelled     *)
(* from the specification (sections 4.1 and 4.3).  The view runtime        *)
(* (React) and the store are external collaborators; they are modelled as  *)
(* the environment that calls the lifecycle methods.                       *)
(*                                                                         *)
(* The set-up of a connected component (connect, match, initSelector) is   *)
(* a second, independent state machine on the variable setup: SetupSpec.   *)
(***************************************************************************)
EXTENDS Integers, Sequences, FiniteSets, TLC

\* ------------------------------------------------------------------ bounds
\* Number of connected components; they form the tree in which component c
\* has the children 2c and 2c+1.
NComps == 3
\* Store states are 0..MaxState.
MaxState == 2
\* The host application gives the root component own props 0..MaxProp.
MaxProp == 0
\* Commits of one component since the last dispatch are counted up to MaxCommits.
MaxCommits == 2
\* Lists of factories given to match have at most MaxFactories factories.
MaxFactories == 2

Comps == 1..NComps
States == 0..MaxState
TreeParent(c) == c \div 2
ChildrenOf(c) == SelectSeq(<<2 * c, 2 * c + 1>>, LAMBDA d : d <= NComps)

RECURSIVE Subtree(_)
\* The components of the subtree of c, parent first.
Subtree(c) ==
    IF c > NComps THEN <<>> ELSE <<c>> \o Subtree(2 * c) \o Subtree(2 * c + 1)

RECURSIVE Ancestors(_)
Ancestors(c) == IF c <= 1 THEN {} ELSE {TreeParent(c)} \cup Ancestors(TreeParent(c))

SeqToSet(s) == {s[i] : i \in 1..Len(s)}
Remove(s, x) == SelectSeq(s, LAMBDA y : y # x)

VARIABLES
    cfg,        \* per component: the arguments of connect() and how it is used
    store,      \* the store: [state, listeners]
    conn,       \* per component: the Connect instance, its selector and its Subscription
    stack,      \* the running notification loops and pending componentDidUpdate calls
    batching,   \* whether the view runtime batches setState in the current dispatch
    fault,      \* an exception escaped from a handler
    last,       \* what the last step did (history, for stating the properties)
    setup       \* one use of connect(): its arguments and how far the set-up got

vars == <<cfg, store, conn, stack, batching, fault, last, setup>>

\* ------------------------------------------------------------ configuration
\* mapStateToProps given to connect(): "id" derives the whole state, "half"
\* derives state \div 2 (so that some state changes leave it unchanged),
\* "none" is no mapStateToProps.  throws: mapStateToProps throws on the store
\* state MaxState.  propsMode: the store is passed as a prop.  takesProps: the
\* parent's wrapped component passes its state props down as own props.
Profile(m, t, pm, tp) ==
    [mapState |-> m, throws |-> t, propsMode |-> pm, takesProps |-> tp]

\* selector.props before the first run (undefined).
Undef == [sp |-> -1, op |-> -1]

\* shouldHandleStateChanges that says yes without a mapStateToProps.
shouldHandleStateChangesAlways(c) == TRUE

\* index.js:105
shouldHandleStateChanges(c) == cfg[c].mapState # "none"

\* ./connect/selectorFactory (pure mode, index.js:15-23): the derived props of
\* (state, ownProps).  The factory memoizes: it returns the reference it returned
\* last when the derived value is shallow-equal to it, so two references are the
\* same reference exactly when they hold the same value.
mapStateToProps(c, s) ==
    CASE cfg[c].mapState = "id" -> s
      [] cfg[c].mapState = "half" -> s \div 2
      [] OTHER -> 0

sourceSelectorThrows(c, s) ==
    cfg[c].mapState # "none" /\ cfg[c].throws /\ s = MaxState

sourceSelector(c, s, ownProps) == [sp |-> mapStateToProps(c, s), op |-> ownProps]

\* ------------------------------------------------------------------ selector
\* selector.run that stores the derived props without comparing them.
runComponentSelectorNoMemo(k, c, s, props) ==
    IF sourceSelectorThrows(c, s)
    THEN [k EXCEPT !.shouldComponentUpdate = TRUE, !.error = "Error"]
    ELSE [k EXCEPT !.shouldComponentUpdate = TRUE,
                   !.props = sourceSelector(c, s, props),
                   !.error = "null"]

\* selector.run that does not look at the stored error.
runComponentSelectorIgnoresError(k, c, s, props) ==
    IF sourceSelectorThrows(c, s)
    THEN [k EXCEPT !.shouldComponentUpdate = TRUE, !.error = "Error"]
    ELSE LET nextProps == sourceSelector(c, s, props) IN
         IF nextProps # k.props
         THEN [k EXCEPT !.shouldComponentUpdate = TRUE,
                        !.props = nextProps,
                        !.error = "null"]
         ELSE k

\* selector.run whose catch block does not set shouldComponentUpdate.
runComponentSelectorSwallows(k, c, s, props) ==
    IF sourceSelectorThrows(c, s)
    THEN [k EXCEPT !.error = "Error"]
    ELSE LET nextProps == sourceSelector(c, s, props) IN
         IF nextProps # k.props \/ k.error # "null"
         THEN [k EXCEPT !.shouldComponentUpdate = TRUE,
                        !.props = nextProps,
                        !.error = "null"]
         ELSE k

\* selector.run that clears shouldComponentUpdate when it finds no change.
runComponentSelectorResets(k, c, s, props) ==
    IF sourceSelectorThrows(c, s)
    THEN [k EXCEPT !.shouldComponentUpdate = TRUE, !.error = "Error"]
    ELSE LET nextProps == sourceSelector(c, s, props) IN
         IF nextProps # k.props \/ k.error # "null"
         THEN [k EXCEPT !.shouldComponentUpdate = TRUE,
                        !.props = nextProps,
                        !.error = "null"]
         ELSE [k EXCEPT !.shouldComponentUpdate = FALSE]

\* index.js:63-75  selector.run(props) on the Connect record k of component c
runComponentSelector(k, c, s, props) ==
    IF sourceSelectorThrows(c, s)
    THEN [k EXCEPT !.shouldComponentUpdate = TRUE, !.error = "Error"]
    ELSE LET nextProps == sourceSelector(c, s, props) IN
         IF nextProps # k.props \/ k.error # "null"
         THEN [k EXCEPT !.shouldComponentUpdate = TRUE,
                        !.props = nextProps,
                        !.error = "null"]
         ELSE k

\* selector.run: runComponentSelector until componentWillUnmount replaces it by
\* noop.  The field ranAt is history: the inputs of the last call that ran.
run(k, c, s, props) ==
    IF k.runNoop THEN k
    ELSE [runComponentSelector(k, c, s, props) EXCEPT !.ranAt = [s |-> s, own |-> props]]

\* ------------------------------------------------- Subscription (spec 4.1)
\* A world w is [conn, listeners]: the Connect instances and the store's
\* listeners.  A Subscription is the fields parentSub, unsubscribe and listeners
\* of conn[c]; the listener registered for component c is its onStateChange.

RECURSIVE trySubscribe(_, _)
\* trySubscribe that registers the listener again when it is subscribed already.
trySubscribeAgain(w, c) ==
    LET p == w.conn[c].parentSub
        up == IF p # 0 THEN trySubscribe(w, p) ELSE w
        reg == IF p # 0
               THEN [up EXCEPT !.conn[p].listeners = Append(@, c)]
               ELSE [up EXCEPT !.listeners = Append(@, c)]
    IN [reg EXCEPT !.conn[c].unsubscribe = TRUE]

\* Subscription.trySubscribe: idempotent; registers onStateChange with the parent
\* Subscription (addNestedSub, which first subscribes the parent itself) or, for
\* a root, with the store.
trySubscribe(w, c) ==
    IF w.conn[c].unsubscribe THEN w
    ELSE LET p == w.conn[c].parentSub
             up == IF p # 0 THEN trySubscribe(w, p) ELSE w
             reg == IF p # 0
                    THEN [up EXCEPT !.conn[p].listeners = Append(@, c)]
                    ELSE [up EXCEPT !.listeners = Append(@, c)]
         IN [reg EXCEPT !.conn[c].unsubscribe = TRUE, !.conn[c].listeners = <<>>]

\* Subscription.tryUnsubscribe: idempotent; calls the unsubscribe handle (which
\* removes the listener upstream), clears it and discards the nested listeners.
tryUnsubscribe(w, c) ==
    IF ~w.conn[c].unsubscribe THEN w
    ELSE LET p == w.conn[c].parentSub
             unreg == IF p # 0
                      THEN [w EXCEPT !.conn[p].listeners = Remove(@, c)]
                      ELSE [w EXCEPT !.listeners = Remove(@, c)]
         IN [unreg EXCEPT !.conn[c].unsubscribe = FALSE, !.conn[c].listeners = <<>>]

\* Subscription.isSubscribed
subscriptionIsSubscribed(k) == k.unsubscribe

\* A frame of the call stack.  kind "notify": a running notifyNestedSubs (or
\* store) loop over the snapshot ls taken at call start, src the component whose
\* Subscription runs it (0: the store), i the next listener, called the
\* listeners called so far.  kind "cdu": the componentDidUpdate calls the view
\* runtime owes after a commit, children first.
Frame(kind, src, ls) == [kind |-> kind, src |-> src, ls |-> ls, i |-> 1, called |-> <<>>]

\* Subscription.notifyNestedSubs of component c: the loop over a snapshot of its
\* listeners, as the frame that runs it.
notifyNestedSubsFrame(cn, c) == Frame("notify", c, cn[c].listeners)

\* ----------------------------------------------------------------- Connect
\* The instance before its constructor ran.  The field since is history: where
\* the component stands since its last notification that asked for a visual
\* update ("requested", then "committed" by the render, then "idle" again by
\* the notifyNestedSubs after the commit; "twice" is a notifyNestedSubs after a
\* commit that no such notification asked for).  The fields updated and commits
\* are history too: whether the last step called render, and how many renders
\* of the component committed since the last dispatch (MaxCommits: that many or
\* more).
Unbuilt ==
    [life |-> "unbuilt", own |-> 0,
     props |-> Undef, error |-> "null", shouldComponentUpdate |-> FALSE,
     runNoop |-> FALSE,
     subscription |-> FALSE, context |-> 0, propSub |-> 0, parentSub |-> 0,
     unsubscribe |-> FALSE, listeners |-> <<>>, notifyNoop |-> FALSE,
     componentDidUpdate |-> FALSE, pending |-> FALSE,
     rendered |-> Undef, raised |-> FALSE, since |-> "idle",
     ranAt |-> [s |-> -1, own |-> -1], updated |-> FALSE, commits |-> 0]

\* getChildContext that exposes the own Subscription also in props mode.
getChildContextOwn(cn, c) == IF cn[c].subscription THEN c ELSE cn[c].context

\* index.js:107-114  the subscription handle given to the descendants
getChildContext(cn, c) ==
    IF ~cfg[c].propsMode /\ cn[c].subscription THEN c ELSE cn[c].context

\* index.js:266-278 and 204-213: the storeSubscription prop a component passes on
\* with the store prop: its own Subscription in props mode, else the one it got.
addExtraPropsSubscription(cn, c) ==
    IF cfg[c].propsMode /\ cn[c].subscription THEN c ELSE cn[c].propSub

\* index.js:215-228  initSubscription: parentSub comes from where the store came from
initSubscriptionParent(k, c) == IF cfg[c].propsMode THEN k.propSub ELSE k.context

\* render that leaves shouldComponentUpdate as it is.
renderKeepsFlag(k) ==
    LET k1 == [k EXCEPT !.pending = FALSE, !.updated = TRUE] IN
    IF k1.error # "null"
    THEN [k1 EXCEPT !.raised = TRUE]
    ELSE [k1 EXCEPT !.raised = FALSE, !.rendered = k1.props,
                    !.commits = IF @ < MaxCommits THEN @ + 1 ELSE @,
                    !.since = IF @ = "requested" THEN "committed" ELSE @]

\* render that forgets the error it raises.
renderClearsError(k) ==
    LET k1 == [k EXCEPT !.shouldComponentUpdate = FALSE, !.pending = FALSE,
                        !.updated = TRUE] IN
    IF k1.error # "null"
    THEN [k1 EXCEPT !.raised = TRUE, !.error = "null"]
    ELSE [k1 EXCEPT !.raised = FALSE, !.rendered = k1.props,
                    !.commits = IF @ < MaxCommits THEN @ + 1 ELSE @,
                    !.since = IF @ = "requested" THEN "committed" ELSE @]

\* index.js:284-293  render: consumes shouldComponentUpdate; raises the stored
\* error, else renders selector.props.  A render also consumes the pending
\* setState of the view runtime.
render(k) ==
    LET k1 == [k EXCEPT !.shouldComponentUpdate = FALSE, !.pending = FALSE,
                        !.updated = TRUE] IN
    IF k1.error # "null"
    THEN [k1 EXCEPT !.raised = TRUE]
    ELSE [k1 EXCEPT !.raised = FALSE, !.rendered = k1.props,
                    !.commits = IF @ < MaxCommits THEN @ + 1 ELSE @,
                    !.since = IF @ = "requested" THEN "committed" ELSE @]

\* The own props the wrapped component of p passes to its child d.
passedProps(cn, p, d) == IF cfg[d].takesProps THEN cn[p].rendered.sp ELSE 0

\* index.js:82-103  constructor (initSelector, initSubscription) of component c
\* with own props own, followed by the first render (which is no update).
constructor(cn, c, s, own) ==
    LET p == TreeParent(c)
        k0 == [Unbuilt EXCEPT
                 !.life = "constructed", !.own = own,
                 !.context = IF c = 1 THEN 0 ELSE getChildContext(cn, p),
                 !.propSub = IF c = 1 \/ ~cfg[c].propsMode THEN 0
                             ELSE addExtraPropsSubscription(cn, p)]
        k1 == run(k0, c, s, own)
        k2 == IF shouldHandleStateChanges(c)
              THEN [k1 EXCEPT !.subscription = TRUE,
                              !.parentSub = initSubscriptionParent(k1, c)]
              ELSE k1
    IN [render(k2) EXCEPT !.commits = 0]

\* componentWillUnmount that leaves selector.run in place.
componentWillUnmountKeepsRun(w, c) ==
    LET w1 == IF w.conn[c].subscription THEN tryUnsubscribe(w, c) ELSE w IN
    [w1 EXCEPT !.conn[c].subscription = FALSE,
               !.conn[c].notifyNoop = TRUE,
               !.conn[c].shouldComponentUpdate = FALSE,
               !.conn[c].pending = FALSE,
               !.conn[c].life = "detached"]

\* index.js:138-145  componentWillUnmount; the view runtime drops the pending
\* setState of an unmounted component.
componentWillUnmount(w, c) ==
    LET w1 == IF w.conn[c].subscription THEN tryUnsubscribe(w, c) ELSE w IN
    [w1 EXCEPT !.conn[c].subscription = FALSE,
               !.conn[c].notifyNoop = TRUE,
               !.conn[c].runNoop = TRUE,
               !.conn[c].shouldComponentUpdate = FALSE,
               !.conn[c].pending = FALSE,
               !.conn[c].life = "detached"]

RECURSIVE unmountAll(_, _)
\* The view runtime unmounts a subtree parent first.
unmountAll(w, cs) ==
    IF cs = <<>> THEN w
    ELSE unmountAll(IF w.conn[Head(cs)].life = "mounted"
                    THEN componentWillUnmount(w, Head(cs)) ELSE w, Tail(cs))

RECURSIVE performUpdate(_, _, _, _)
RECURSIVE updateChildren(_, _, _, _, _)
RECURSIVE receiveProps(_, _, _, _, _)

\* The view runtime updates component c: render (index.js:284-293), then the
\* mounted children the reconciliation reaches receive their props.  The result
\* is the new world and cdus, the components whose componentDidUpdate hook is
\* set and is called after the commit, children first.  R: the children that
\* are given a new element although their props are the same.
performUpdate(w, c, s, R) ==
    LET k == render(w.conn[c])
        w1 == [w EXCEPT !.conn[c] = k]
    IN IF k.raised THEN [w |-> w1, cdus |-> <<>>]
       ELSE LET r == updateChildren(w1, c, ChildrenOf(c), s, R) IN
            [w |-> r.w,
             cdus |-> r.cdus \o (IF k.componentDidUpdate THEN <<c>> ELSE <<>>)]

updateChildren(w, p, ds, s, R) ==
    IF ds = <<>> THEN [w |-> w, cdus |-> <<>>]
    ELSE LET d == Head(ds)
             nextProps == passedProps(w.conn, p, d)
             r1 == IF w.conn[d].life = "mounted"
                      /\ (d \in R \/ nextProps # w.conn[d].own)
                   THEN receiveProps(w, d, s, nextProps, R)
                   ELSE [w |-> w, cdus |-> <<>>]
             r2 == updateChildren(r1.w, p, Tail(ds), s, R)
         IN [w |-> r2.w, cdus |-> r1.cdus \o r2.cdus]

\* componentWillReceiveProps that runs the selector on this.props, the props
\* before the change, instead of nextProps.
receivePropsOldProps(w, d, s, nextProps, R) ==
    LET k == [run(w.conn[d], d, s, w.conn[d].own) EXCEPT !.own = nextProps]
        w1 == [w EXCEPT !.conn[d] = k]
    IN IF k.shouldComponentUpdate
       THEN performUpdate(w1, d, s, R)
       ELSE [w |-> w1, cdus |-> <<>>]

\* componentWillReceiveProps followed by an update whatever shouldComponentUpdate
\* says.
receivePropsAlwaysUpdates(w, d, s, nextProps, R) ==
    LET k == [run(w.conn[d], d, s, nextProps) EXCEPT !.own = nextProps]
    IN performUpdate([w EXCEPT !.conn[d] = k], d, s, R)

\* index.js:130-136  componentWillReceiveProps(nextProps), then the view runtime
\* asks shouldComponentUpdate and updates the component if it says so.
receiveProps(w, d, s, nextProps, R) ==
    LET k == [run(w.conn[d], d, s, nextProps) EXCEPT !.own = nextProps]
        w1 == [w EXCEPT !.conn[d] = k]
    IN IF k.shouldComponentUpdate
       THEN performUpdate(w1, d, s, R)
       ELSE [w |-> w1, cdus |-> <<>>]

\* The frames a commit leaves on the stack: the owed componentDidUpdate calls.
cduFrames(cdus) == IF cdus = <<>> THEN <<>> ELSE <<Frame("cdu", 0, cdus)>>

\* onStateChange that calls notifyNestedSubs whatever the selector found, before
\* the visual update it asks for.
onStateChangeEager(w, c, s, batched, R) ==
    LET k0 == w.conn[c]
        k1 == run(k0, c, s, k0.own)
        k2 == IF k1.shouldComponentUpdate
              THEN [k1 EXCEPT !.componentDidUpdate = TRUE, !.pending = TRUE,
                              !.since = "requested"]
              ELSE k1
    IN [w |-> [w EXCEPT !.conn[c] = k2],
        push |-> IF k1.notifyNoop \/ k1.listeners = <<>> THEN <<>>
                 ELSE <<notifyNestedSubsFrame(w.conn, c)>>,
        fault |-> FALSE,
        forwarded |-> ~k1.notifyNoop, requested |-> k1.shouldComponentUpdate]

\* onStateChange that calls this.subscription.notifyNestedSubs() instead of the
\* copy this.notifyNestedSubs: a TypeError once componentWillUnmount has set
\* this.subscription to null.
onStateChangeViaSubscription(w, c, s, batched, R) ==
    LET k0 == w.conn[c]
        k1 == run(k0, c, s, k0.own)
    IN IF ~k1.shouldComponentUpdate
       THEN [w |-> [w EXCEPT !.conn[c] = k1],
             push |-> IF ~k1.subscription \/ k1.listeners = <<>> THEN <<>>
                      ELSE <<notifyNestedSubsFrame(w.conn, c)>>,
             fault |-> ~k1.subscription,
             forwarded |-> k1.subscription, requested |-> FALSE]
       ELSE [w |-> [w EXCEPT !.conn[c] =
                       [k1 EXCEPT !.componentDidUpdate = TRUE, !.pending = TRUE,
                                  !.since = "requested"]],
             push |-> <<>>, fault |-> FALSE,
             forwarded |-> FALSE, requested |-> TRUE]

\* onStateChange that asks for the visual update without setting the
\* componentDidUpdate hook.
onStateChangeUnarmed(w, c, s, batched, R) ==
    LET k0 == w.conn[c]
        k1 == run(k0, c, s, k0.own)
    IN IF ~k1.shouldComponentUpdate
       THEN [w |-> [w EXCEPT !.conn[c] = k1],
             push |-> IF k1.notifyNoop \/ k1.listeners = <<>> THEN <<>>
                      ELSE <<notifyNestedSubsFrame(w.conn, c)>>,
             fault |-> FALSE,
             forwarded |-> ~k1.notifyNoop, requested |-> FALSE]
       ELSE LET k2 == [k1 EXCEPT !.since = "requested"]
                w2 == [w EXCEPT !.conn[c] = k2]
            IN IF k2.life = "mounted" /\ ~batched
               THEN LET r == performUpdate(w2, c, s, R) IN
                    [w |-> r.w, push |-> cduFrames(r.cdus),
                     fault |-> FALSE,
                     forwarded |-> FALSE, requested |-> TRUE]
               ELSE [w |-> [w2 EXCEPT !.conn[c].pending = TRUE], push |-> <<>>,
                     fault |-> FALSE,
                     forwarded |-> FALSE, requested |-> TRUE]

\* onStateChange that does not forward the notification when the selector
\* found no change.
onStateChangeSilent(w, c, s, batched, R) ==
    LET k0 == w.conn[c]
        k1 == run(k0, c, s, k0.own)
        k2 == [k1 EXCEPT !.componentDidUpdate = TRUE, !.since = "requested"]
    IN IF ~k1.shouldComponentUpdate
       THEN [w |-> [w EXCEPT !.conn[c] = k1], push |-> <<>>, fault |-> FALSE,
             forwarded |-> FALSE, requested |-> FALSE]
       ELSE [w |-> [w EXCEPT !.conn[c] = [k2 EXCEPT !.pending = TRUE]],
             push |-> <<>>, fault |-> FALSE,
             forwarded |-> FALSE, requested |-> TRUE]

\* index.js:241-250  onStateChange of component c.  The result is the new world,
\* the frames the call pushes (the loop of notifyNestedSubs, or the
\* componentDidUpdate calls owed after a synchronous update), whether an
\* exception escaped, and for the history: whether notifyNestedSubs was called
\* and whether setState was.
onStateChange(w, c, s, batched, R) ==
    LET k0 == w.conn[c]
        k1 == run(k0, c, s, k0.own)
    IN IF ~k1.shouldComponentUpdate
       THEN [w |-> [w EXCEPT !.conn[c] = k1],
             push |-> IF k1.notifyNoop \/ k1.listeners = <<>> THEN <<>>
                      ELSE <<notifyNestedSubsFrame(w.conn, c)>>,
             fault |-> FALSE,
             forwarded |-> ~k1.notifyNoop, requested |-> FALSE]
       ELSE LET k2 == [k1 EXCEPT !.componentDidUpdate = TRUE, !.since = "requested"]
                w2 == [w EXCEPT !.conn[c] = k2]
            IN IF k2.life = "mounted" /\ ~batched
               THEN LET r == performUpdate(w2, c, s, R) IN
                    [w |-> r.w, push |-> cduFrames(r.cdus),
                     fault |-> FALSE,
                     forwarded |-> FALSE, requested |-> TRUE]
               ELSE [w |-> [w2 EXCEPT !.conn[c].pending = TRUE], push |-> <<>>,
                     fault |-> FALSE,
                     forwarded |-> FALSE, requested |-> TRUE]

\* notifyNestedSubsOnComponentDidUpdate that leaves the componentDidUpdate hook
\* in place.
notifyNestedSubsKeepsHook(w, c) ==
    LET k == w.conn[c]
        step == CASE k.notifyNoop -> k.since
                  [] k.since = "committed" -> "idle"
                  [] OTHER -> "twice"
    IN [w |-> [w EXCEPT !.conn[c].since = step],
        push |-> IF k.notifyNoop \/ k.listeners = <<>> THEN <<>>
                 ELSE <<notifyNestedSubsFrame(w.conn, c)>>,
        forwarded |-> ~k.notifyNoop]

\* index.js:252-260  notifyNestedSubsOnComponentDidUpdate of component c
notifyNestedSubsOnComponentDidUpdate(w, c) ==
    LET k == w.conn[c]
        step == CASE k.notifyNoop -> k.since
                  [] k.since = "committed" -> "idle"
                  [] OTHER -> "twice"
    IN [w |-> [w EXCEPT !.conn[c].componentDidUpdate = FALSE,
                        !.conn[c].since = step],
        push |-> IF k.notifyNoop \/ k.listeners = <<>> THEN <<>>
                 ELSE <<notifyNestedSubsFrame(w.conn, c)>>,
        forwarded |-> ~k.notifyNoop]

\* componentDidMount that re-runs the selector and does not force the update.
componentDidMountNoForce(w, c, s, R) ==
    LET w0 == [w EXCEPT !.conn[c].life = "mounted"] IN
    IF ~shouldHandleStateChanges(c) THEN [w |-> w0, cdus |-> <<>>]
    ELSE LET w1 == trySubscribe(w0, c)
             k == run(w1.conn[c], c, s, w1.conn[c].own)
         IN [w |-> [w1 EXCEPT !.conn[c] = k], cdus |-> <<>>]

\* index.js:116-128  componentDidMount of component c
componentDidMount(w, c, s, R) ==
    LET w0 == [w EXCEPT !.conn[c].life = "mounted"] IN
    IF ~shouldHandleStateChanges(c) THEN [w |-> w0, cdus |-> <<>>]
    ELSE LET w1 == trySubscribe(w0, c)
             k == run(w1.conn[c], c, s, w1.conn[c].own)
             w2 == [w1 EXCEPT !.conn[c] = k]
         IN IF k.shouldComponentUpdate
            THEN LET r == performUpdate(w2, c, s, R) IN
                 [w |-> r.w, cdus |-> r.cdus]
            ELSE [w |-> w2, cdus |-> <<>>]

\* index.js:262-264
isSubscribed(k) == k.subscription /\ subscriptionIsSubscribed(k)

\* ------------------------------------------------------------------ history
\* The selector of a Connect record.
Sel(k) == [props |-> k.props, error |-> k.error,
           shouldComponentUpdate |-> k.shouldComponentUpdate]

\* The Connect record k of component c right after selector.run(props).
AfterRun(k, c, s, props) == Sel(run(k, c, s, props))
\* The call selector.run(props) has the inputs of the call before it.
SameInputs(k, s, props) == k.ranAt = [s |-> s, own |-> props]

\* What the last step did: the operation op on component c, called by the loop
\* of src (0: the store or the view runtime); the selector of c before the step
\* (pre) and right after the selector.run of the step (post); whether that call
\* ran the derivation (ran) and with the inputs of the run before it (same);
\* whether the step called notifyNestedSubs of c (forwarded) and setState
\* (requested).
Ev(op, c, src, pre, post, ran, same, forwarded, requested) ==
    [op |-> op, c |-> c, src |-> src, pre |-> pre, post |-> post, ran |-> ran,
     same |-> same, forwarded |-> forwarded, requested |-> requested]

NoSel == Sel(Unbuilt)
\* A step that runs no selector.
Plain(op, c) == Ev(op, c, 0, NoSel, NoSel, FALSE, FALSE, FALSE, FALSE)
\* A step on component c that calls selector.run(props) on the record k.
Ran(op, c, src, k, s, props, forwarded, requested) ==
    Ev(op, c, src, Sel(k), AfterRun(k, c, s, props), ~k.runNoop,
       ~k.runNoop /\ SameInputs(k, s, props), forwarded, requested)

\* ------------------------------------------------------------------- set-up
\* typeof of an argument given to connect().
ArgTypes == {"function", "object", "undefined", "number"}
\* A factory is the set of argument types it accepts (for which it returns an
\* initialiser); a list of factories is a sequence of them.
FactoryLists == UNION {[1..n -> SUBSET (ArgTypes \ {"number"})] : n \in 0..MaxFactories}
\* ./connect/mapDispatchToProps and ./connect/mergeProps: function, missing,
\* object; function, omitted.
mapDispatchToPropsFactories == <<{"function"}, {"undefined"}, {"object"}>>
mergePropsFactories == <<{"function"}, {"undefined"}>>

\* factories[i](arg): the initialiser of factory i, or undefined.
Falsy == [thrower |-> FALSE, by |-> 0]
factoryResult(factories, i, arg) ==
    IF arg \in factories[i] THEN [thrower |-> FALSE, by |-> i] ELSE Falsy

RECURSIVE matchLoop(_, _, _, _, _)
RECURSIVE matchLoopUp(_, _, _, _, _)
\* The loop of match from factory i down; consulted: the factories called.
matchLoop(arg, factories, name, i, consulted) ==
    IF i < 1
    THEN [result |-> [thrower |-> TRUE, type |-> arg, name |-> name],
          consulted |-> consulted]
    ELSE LET result == factoryResult(factories, i, arg) IN
         IF result # Falsy
         THEN [result |-> result, consulted |-> Append(consulted, i)]
         ELSE matchLoop(arg, factories, name, i - 1, Append(consulted, i))

\* The loop of a match that goes through the factories first to last.
matchLoopUp(arg, factories, name, i, consulted) ==
    IF i > Len(factories)
    THEN [result |-> [thrower |-> TRUE, type |-> arg, name |-> name],
          consulted |-> consulted]
    ELSE LET result == factoryResult(factories, i, arg) IN
         IF result # Falsy
         THEN [result |-> result, consulted |-> Append(consulted, i)]
         ELSE matchLoopUp(arg, factories, name, i + 1, Append(consulted, i))

matchFirstToLast(arg, factories, name) == matchLoopUp(arg, factories, name, 1, <<>>)

\* index.js:40-51  match(arg, factories, name): the result of the last factory
\* that accepts arg, else a function that throws when it is called.
match(arg, factories, name) == matchLoop(arg, factories, name, Len(factories), <<>>)

\* The call result(dispatch, options) of what match returned: the error the
\* thrower throws (index.js:46-50), or none.
callInit(result, options) ==
    IF result.thrower
    THEN [kind |-> "argument", type |-> result.type, name |-> result.name,
          component |-> options.wrappedComponentName]
    ELSE [kind |-> "null"]

\* No connect() is in progress.
NoSetup == [phase |-> "idle"]
NoError == [kind |-> "null"]

\* index.js:323-324
wrappedComponentName(WrappedComponent) ==
    IF WrappedComponent.name # "" THEN WrappedComponent.name ELSE "Component"

\* index.js:311-354  connect(mapStateToProps, mapDispatchToProps, mergeProps)
\* (WrappedComponent): the invariant on WrappedComponent, then the options are
\* stored as they are.
connect(s) ==
    IF s.WrappedComponent.type # "function"
    THEN [s EXCEPT !.phase = "failed",
                   !.error = [kind |-> "invariant", name |-> "WrappedComponent"]]
    ELSE [s EXCEPT !.phase = "connected",
                   !.options = [wrappedComponentName |->
                                   wrappedComponentName(s.WrappedComponent)]]

\* initSelector that does not call the initialisers match returned.
initSelectorUnchecked(s) ==
    [s EXCEPT !.phase = "constructed",
              !.resolved = [mapStateToProps |->
                               match(s.args.mapStateToProps, s.factories, "mapStateToProps"),
                            mapDispatchToProps |->
                               match(s.args.mapDispatchToProps,
                                     mapDispatchToPropsFactories, "mapDispatchToProps"),
                            mergeProps |->
                               match(s.args.mergeProps, mergePropsFactories, "mergeProps")]]

\* index.js:164-202  initSelector: match for the three arguments, then
\* selectorFactory, which calls the three initialisers in turn.
initSelector(s) ==
    LET initMapStateToProps ==
            match(s.args.mapStateToProps, s.factories, "mapStateToProps")
        initMapDispatchToProps ==
            match(s.args.mapDispatchToProps, mapDispatchToPropsFactories,
                  "mapDispatchToProps")
        initMergeProps == match(s.args.mergeProps, mergePropsFactories, "mergeProps")
        e1 == callInit(initMapStateToProps.result, s.options)
        e2 == callInit(initMapDispatchToProps.result, s.options)
        e3 == callInit(initMergeProps.result, s.options)
        error == CASE e1 # NoError -> e1 [] e2 # NoError -> e2 [] OTHER -> e3
        s1 == [s EXCEPT !.resolved = [mapStateToProps |-> initMapStateToProps,
                                      mapDispatchToProps |-> initMapDispatchToProps,
                                      mergeProps |-> initMergeProps]]
    IN IF error # NoError
       THEN [s1 EXCEPT !.phase = "failed", !.error = error]
       ELSE [s1 EXCEPT !.phase = "constructed"]

\* The uses of connect() the set-up is checked on.
Setups ==
    [phase : {"idle"},
     factories : FactoryLists,
     args : [mapStateToProps : ArgTypes, mapDispatchToProps : ArgTypes,
             mergeProps : ArgTypes],
     WrappedComponent : {[type |-> "function", name |-> "A"],
                         [type |-> "function", name |-> ""],
                         [type |-> "object", name |-> ""]},
     hasStore : BOOLEAN,
     options : {[wrappedComponentName |-> ""]},
     resolved : {<<>>},
     error : {NoError}]

\* -------------------------------------------------------------------- state
\* The Connect instances as a step finds them: no render called yet.
Fresh == [c \in Comps |-> [conn[c] EXCEPT !.updated = FALSE]]
\* The Connect instances as a dispatch finds them: a new cycle starts.
NewCycle == [c \in Comps |-> [conn[c] EXCEPT !.updated = FALSE, !.commits = 0]]
World == [conn |-> Fresh, listeners |-> store.listeners]

Top == stack[Len(stack)]
Push(st, frames) == st \o frames
\* The top frame moved past the listener it just called.
Advance(st, c) ==
    [st EXCEPT ![Len(st)].i = @ + 1, ![Len(st)].called = Append(@, c)]

\* A mount is in progress: a component is constructed and not yet mounted.
MountTxn == \E c \in Comps : conn[c].life = "constructed"
SomePending == \E c \in Comps : conn[c].pending

\* Application code runs (and may mount and unmount components) between
\* dispatches and inside the listeners of a notification loop, not between a
\* commit and its componentDidUpdate calls.
EnvMayAct == IF stack = <<>> THEN TRUE ELSE Top.kind = "notify"

\* A detached instance that no running loop can still call is garbage: its
\* fields are forgotten.
Detached == [Unbuilt EXCEPT !.life = "detached", !.runNoop = TRUE, !.notifyNoop = TRUE]
Collect(cn, st) ==
    IF st # <<>> THEN cn
    ELSE [c \in Comps |-> IF cn[c].life = "detached" THEN Detached ELSE cn[c]]
\* Whether setState is batched matters while a dispatch or its updates run.
Batching(cn, st, b) == b /\ (st # <<>> \/ \E c \in Comps : cn[c].pending)

\* The configurations the model is checked on, as the profiles of components
\* 1 (the root), 2 and 3; further components derive the whole state.
Config(p1, p2, p3) ==
    [c \in Comps |-> CASE c = 1 -> p1 [] c = 2 -> p2 [] c = 3 -> p3
                        [] OTHER -> Profile("id", FALSE, FALSE, FALSE)]
Configs ==
    { Config(Profile("half", FALSE, FALSE, FALSE), Profile("id", FALSE, FALSE, FALSE),
             Profile("id", TRUE, FALSE, FALSE)),
      Config(Profile("id", TRUE, FALSE, FALSE), Profile("id", FALSE, FALSE, TRUE),
             Profile("half", FALSE, FALSE, FALSE)),
      Config(Profile("none", FALSE, FALSE, FALSE), Profile("id", FALSE, FALSE, FALSE),
             Profile("half", TRUE, FALSE, TRUE)),
      Config(Profile("id", FALSE, TRUE, FALSE), Profile("id", FALSE, TRUE, FALSE),
             Profile("half", FALSE, FALSE, TRUE)),
      Config(Profile("half", FALSE, FALSE, FALSE), Profile("none", FALSE, FALSE, TRUE),
             Profile("id", FALSE, FALSE, TRUE)) }

Init ==
    /\ cfg \in Configs
    /\ store = [state |-> 0, listeners |-> <<>>]
    /\ conn = [c \in Comps |-> Unbuilt]
    /\ stack = <<>>
    /\ batching = FALSE
    /\ fault = FALSE
    /\ last = Plain("init", 0)
    /\ setup = NoSetup

\* ------------------------------------------------------------------ actions
\* The view runtime constructs component c (constructor and first render).
Construct(c) ==
    /\ stack = <<>>
    /\ conn[c].life = "unbuilt"
    /\ c # 1 => /\ conn[TreeParent(c)].life \in {"constructed", "mounted"}
                /\ conn[TreeParent(c)].rendered # Undef
                /\ ~conn[TreeParent(c)].raised
    /\ \E own \in 0..MaxProp :
         /\ c # 1 => own = passedProps(conn, TreeParent(c), c)
         /\ conn' = [Fresh EXCEPT ![c] = constructor(conn, c, store.state, own)]
         /\ last' = Ran("construct", c, 0, [Unbuilt EXCEPT !.own = own],
                        store.state, own, FALSE, FALSE)
    /\ UNCHANGED <<cfg, store, stack, batching, fault, setup>>

\* The view runtime mounts component c: componentDidMount, children first.
Mount(c) ==
    /\ stack = <<>>
    /\ conn[c].life = "constructed"
    /\ conn[c].rendered # Undef
    /\ \A d \in SeqToSet(Subtree(c)) \ {c} : conn[d].life # "constructed"
    /\ \E R \in {{}, Comps} :
         LET r == componentDidMount(World, c, store.state, R) IN
         /\ conn' = r.w.conn
         /\ store' = [store EXCEPT !.listeners = r.w.listeners]
         /\ stack' = Push(stack, cduFrames(r.cdus))
         /\ last' = IF shouldHandleStateChanges(c)
                    THEN Ran("mount", c, 0, conn[c], store.state, conn[c].own,
                             FALSE, FALSE)
                    ELSE Plain("mount", c)
    /\ UNCHANGED <<cfg, batching, fault, setup>>

\* The view runtime unmounts the subtree of component c.
Unmount(c) ==
    /\ EnvMayAct
    /\ conn[c].life = "mounted"
    /\ \A d \in SeqToSet(Subtree(c)) : conn[d].life # "constructed"
    /\ LET w == unmountAll(World, Subtree(c)) IN
         /\ conn' = Collect(w.conn, stack)
         /\ store' = [store EXCEPT !.listeners = w.listeners]
         /\ batching' = Batching(w.conn, stack, batching)
    /\ last' = Plain("unmount", c)
    /\ UNCHANGED <<cfg, stack, fault, setup>>

\* The host application renders the root with own props own (not while the
\* view runtime mounts components).
InputChange(own) ==
    /\ stack = <<>>
    /\ ~MountTxn
    /\ conn[1].life = "mounted"
    /\ \E R \in {{}, Comps} :
         LET r == receiveProps(World, 1, store.state, own, R) IN
         /\ conn' = r.w.conn
         /\ stack' = Push(stack, cduFrames(r.cdus))
         /\ last' = Ran("input", 1, 0, conn[1], store.state, own, FALSE, FALSE)
    /\ UNCHANGED <<cfg, store, batching, fault, setup>>

\* store.dispatch: the state becomes s and the store starts to call the
\* listeners it has at this moment.  b: the view runtime batches the setState
\* calls made during this dispatch (it does inside its own event handlers and
\* while it mounts).
Dispatch(s, b) ==
    /\ stack = <<>>
    /\ (MountTxn \/ SomePending) => b
    /\ store' = [store EXCEPT !.state = s]
    /\ batching' = b
    /\ stack' = <<Frame("notify", 0, store.listeners)>>
    /\ conn' = NewCycle
    /\ last' = Plain("dispatch", 0)
    /\ UNCHANGED <<cfg, fault, setup>>

\* The running loop calls its next listener: onStateChange of a component.
NotifyStep ==
    /\ stack # <<>>
    /\ Top.kind = "notify"
    /\ Top.i <= Len(Top.ls)
    /\ \E R \in {{}, Comps} :
         LET c == Top.ls[Top.i]
             r == onStateChange(World, c, store.state, batching, R)
         IN /\ conn' = r.w.conn
            /\ fault' = (fault \/ r.fault)
            /\ stack' = IF r.fault THEN <<>>
                        ELSE Push(Advance(stack, c), r.push)
            /\ last' = Ran("onStateChange", c, Top.src, conn[c], store.state,
                           conn[c].own, r.forwarded, r.requested)
    /\ UNCHANGED <<cfg, store, batching, setup>>

\* The view runtime calls the next componentDidUpdate it owes.
DidUpdateStep ==
    /\ stack # <<>>
    /\ Top.kind = "cdu"
    /\ Top.i <= Len(Top.ls)
    /\ LET c == Top.ls[Top.i]
           r == notifyNestedSubsOnComponentDidUpdate(World, c)
       IN /\ conn' = r.w.conn
          /\ stack' = Push(Advance(stack, c), r.push)
          /\ last' = Ev("componentDidUpdate", c, 0, Sel(conn[c]), Sel(conn[c]),
                        FALSE, FALSE, r.forwarded, FALSE)
    /\ UNCHANGED <<cfg, store, batching, fault, setup>>

\* The loop of the top frame is over: it returns to its caller.
Return ==
    /\ stack # <<>>
    /\ Top.i > Len(Top.ls)
    /\ stack' = SubSeq(stack, 1, Len(stack) - 1)
    /\ conn' = Collect(Fresh, stack')
    /\ batching' = Batching(conn, stack', batching)
    /\ last' = Plain("return", Top.src)
    /\ UNCHANGED <<cfg, store, fault, setup>>

\* After the dispatch, the view runtime processes the setState of component c
\* that it batched, parents first: shouldComponentUpdate (index.js:134-136),
\* then the update.
Flush(c) ==
    /\ stack = <<>>
    /\ ~MountTxn
    /\ conn[c].pending
    /\ conn[c].life = "mounted"
    /\ \A a \in Ancestors(c) : ~conn[a].pending
    /\ \E R \in {{}, Comps} :
         LET r == IF conn[c].shouldComponentUpdate
                  THEN performUpdate(World, c, store.state, R)
                  ELSE [w |-> [World EXCEPT !.conn[c].pending = FALSE], cdus |-> <<>>]
         IN /\ conn' = r.w.conn
            /\ stack' = Push(stack, cduFrames(r.cdus))
            /\ batching' = Batching(r.w.conn, stack', batching)
    /\ last' = Plain("flush", c)
    /\ UNCHANGED <<cfg, store, fault, setup>>

Next ==
    \/ \E c \in Comps : Construct(c)
    \/ \E c \in Comps : Mount(c)
    \/ \E c \in Comps : Unmount(c)
    \/ \E own \in 0..MaxProp : InputChange(own)
    \/ \E s \in States, b \in BOOLEAN : Dispatch(s, b)
    \/ NotifyStep
    \/ DidUpdateStep
    \/ Return
    \/ \E c \in Comps : Flush(c)

Spec == Init /\ [][Next]_vars

\* ------------------------------------------------------- set-up, as actions
\* The application calls connect(...)(WrappedComponent).
ConnectCall ==
    /\ setup.phase = "idle"
    /\ setup' = connect(setup)
    /\ UNCHANGED <<cfg, store, conn, stack, batching, fault, last>>

\* index.js:82-103  the view runtime constructs the connected component: the
\* invariant on the store, then initSelector.
ConstructCall ==
    /\ setup.phase = "connected"
    /\ setup' = IF ~setup.hasStore
                THEN [setup EXCEPT !.phase = "failed",
                                   !.error = [kind |-> "invariant", name |-> "store"]]
                ELSE initSelector(setup)
    /\ UNCHANGED <<cfg, store, conn, stack, batching, fault, last>>

\* The view runtime mounts the constructed component: it is attached.
AttachCall ==
    /\ setup.phase = "constructed"
    /\ setup' = [setup EXCEPT !.phase = "attached"]
    /\ UNCHANGED <<cfg, store, conn, stack, batching, fault, last>>

SetupInit ==
    /\ cfg \in {CHOOSE g \in Configs : TRUE}
    /\ store = [state |-> 0, listeners |-> <<>>]
    /\ conn = [c \in Comps |-> Unbuilt]
    /\ stack = <<>>
    /\ batching = FALSE
    /\ fault = FALSE
    /\ last = Plain("init", 0)
    /\ setup \in Setups

SetupNext == ConnectCall \/ ConstructCall \/ AttachCall

SetupSpec == SetupInit /\ [][SetupNext]_vars

\* ------------------------------------------------------------------- claims
Attached(c) == conn[c].life \in {"constructed", "mounted"}
\* The last step was the call of onStateChange of an attached component.
Notified == last.op = "onStateChange" /\ Attached(last.c)
\* A frame of the stack holds the componentDidUpdate call of p that was made.
CommittedInCycle(p) ==
    \E j \in 1..Len(stack) :
        stack[j].kind = "cdu" /\ p \in SeqToSet(stack[j].called)
\* Component p has no visual update that is asked for and not committed.
NothingUncommitted(p) ==
    /\ ~conn[p].shouldComponentUpdate
    /\ ~conn[p].pending
    /\ conn[p].error = "null"
    /\ conn[p].rendered = conn[p].props

\* C1: top-down ordering.  Whenever the notifyNestedSubs loop of a component P
\* calls onStateChange of a component subscribed beneath it, P has no uncommitted
\* visual update: its shouldComponentUpdate flag is consumed, no setState of P
\* is pending, and what P rendered last is its selector's props.
C1_TopDownOrdering ==
    (last.op = "onStateChange" /\ last.src # 0) => NothingUncommitted(last.src)

\* Both P and its child recomputed with shouldComponentUpdate = TRUE in one
\* cycle: the child is called from the loop P ran after its commit.
C1_Witness ==
    /\ Notified /\ last.src # 0 /\ last.requested
    /\ conn[last.src].life = "mounted"
    /\ CommittedInCycle(last.src)

\* C2: a notification that leaves shouldComponentUpdate = TRUE does not call
\* notifyNestedSubs; it arms componentDidUpdate and calls setState.  The
\* notifyNestedSubs after a commit answers exactly one such notification (never
\* "twice"), and a commit that consumed the request is followed by the call.
C2_DeferredNotifyOnce ==
    /\ (Notified /\ last.post.shouldComponentUpdate) =>
          /\ ~last.forwarded /\ last.requested
          /\ conn[last.c].componentDidUpdate
          /\ conn[last.c].pending \/ ~conn[last.c].shouldComponentUpdate
    /\ \A c \in Comps :
          /\ conn[c].since # "twice"
          /\ (conn[c].since = "committed" /\ conn[c].life = "mounted") =>
                \E j \in 1..Len(stack) :
                    /\ stack[j].kind = "cdu"
                    /\ \E n \in stack[j].i..Len(stack[j].ls) : stack[j].ls[n] = c

\* The notifyNestedSubs after the commit of a batched update ran, and answered
\* the request.
C2_Witness ==
    /\ last.op = "componentDidUpdate" /\ last.forwarded
    /\ batching
    /\ conn[last.c].since = "idle" /\ ~conn[last.c].componentDidUpdate

\* C3: a notification of an attached component that leaves shouldComponentUpdate
\* = FALSE calls notifyNestedSubs within onStateChange and no setState: the loop
\* over all listeners of the component is the running frame.  Every running
\* loop has called each listener before its position, in order, and the
\* attached listener just called has run its selector on the current state.
C3_ForwardOnNoChange ==
    /\ (Notified /\ ~last.post.shouldComponentUpdate) =>
          /\ last.forwarded /\ ~last.requested
          /\ ~conn[last.c].pending
          /\ conn[last.c].listeners # <<>> =>
                Top = notifyNestedSubsFrame(conn, last.c)
    /\ \A j \in 1..Len(stack) :
          stack[j].called = SubSeq(stack[j].ls, 1, stack[j].i - 1)
    /\ (Notified /\ last.src # 0) =>
          \/ conn[last.c].error = "Error"
          \/ conn[last.c].props =
                sourceSelector(last.c, store.state, conn[last.c].own)

\* P did not change and forwarded at once; its child, called by that loop,
\* did change.
C3_Witness ==
    /\ Notified /\ last.src # 0 /\ last.requested
    /\ conn[last.src].life = "mounted"
    /\ ~CommittedInCycle(last.src)
    /\ last.pre.props # last.post.props

\* The derivation of the last step's selector.run threw.
Threw == sourceSelectorThrows(last.c, store.state)
\* What the derivation of the last step's selector.run returned.
NextProps == sourceSelector(last.c, store.state, conn[last.c].own)

\* C4 as stated: when the state and the input props are those of the call
\* before, selector.run leaves shouldComponentUpdate = FALSE and props the same
\* reference.
C4_MemoizationAsStated ==
    (last.ran /\ last.same) =>
        /\ ~last.post.shouldComponentUpdate
        /\ last.post.props = last.pre.props

\* C4 as amended: when the state and the input props are those of the call
\* before and the derivation does not throw, selector.run changes nothing:
\* props is the same reference, and shouldComponentUpdate is what it was before
\* the call (TRUE if no render consumed it since).
C4_Memoization ==
    (last.ran /\ last.same /\ ~Threw) => last.post = last.pre

\* A notification with the inputs of the run before it, after a render consumed
\* the flag: nothing changes.
C4_Witness ==
    /\ Notified /\ last.ran /\ last.same /\ ~Threw
    /\ last.pre.props # Undef
    /\ ~last.pre.shouldComponentUpdate

\* C5: a selector.run whose derivation succeeds sets shouldComponentUpdate,
\* stores the new props and clears the error exactly when the new reference
\* differs from the stored one or an error was stored; otherwise it changes
\* nothing.
C5_SuccessfulRun ==
    (last.ran /\ ~Threw) =>
        IF NextProps # last.pre.props \/ last.pre.error # "null"
        THEN last.post = [props |-> NextProps, error |-> "null",
                          shouldComponentUpdate |-> TRUE]
        ELSE last.post = last.pre

\* The first successful run after an error yields the stored reference and
\* still sets shouldComponentUpdate.
C5_Witness ==
    /\ last.ran /\ ~Threw
    /\ last.pre.error = "Error" /\ ~last.pre.shouldComponentUpdate
    /\ NextProps = last.pre.props
    /\ last.post.shouldComponentUpdate /\ last.post.error = "null"

\* C6: a selector.run whose derivation throws stores the error, sets
\* shouldComponentUpdate and keeps props; no exception escapes to the caller,
\* which goes on: onStateChange asks for the visual update, the constructor and
\* componentDidMount complete.
C6_ThrowingRun ==
    (last.ran /\ Threw) =>
        /\ last.post = [last.pre EXCEPT !.error = "Error",
                                        !.shouldComponentUpdate = TRUE]
        /\ ~fault
        /\ last.op = "onStateChange" => last.requested /\ ~last.forwarded
        /\ last.op = "construct" => conn[last.c].life = "constructed"
        /\ last.op = "mount" => conn[last.c].life = "mounted"

\* The derivation threw in a notification of a component that had props.
C6_Witness ==
    /\ Notified /\ last.ran /\ Threw
    /\ last.pre.props # Undef /\ last.pre.error = "null"
    /\ last.post.props = last.pre.props

\* C7: while an error is stored, a render raises it and does not clear it: a
\* component whose last render raised and that awaits no render still stores
\* the error, and a component that stores an error and awaits no render raised
\* it.  Only a successful run clears the error (and asks for a render); once
\* no error is stored and no render is awaited, the last render exposed props.
C7_ErrorPropagation ==
    \A c \in Comps : Attached(c) =>
        /\ (conn[c].raised /\ ~conn[c].shouldComponentUpdate) =>
              conn[c].error = "Error"
        /\ (conn[c].error = "Error" /\ ~conn[c].shouldComponentUpdate) =>
              conn[c].raised
        /\ (conn[c].error = "null" /\ ~conn[c].shouldComponentUpdate) =>
              ~conn[c].raised /\ conn[c].rendered = conn[c].props

\* A notification found the stored error gone, and the render that followed
\* exposes the props again.
C7_Witness ==
    /\ Notified /\ last.ran
    /\ last.pre.error = "Error" /\ ~last.pre.shouldComponentUpdate
    /\ last.post.error = "null"
    /\ ~conn[last.c].raised /\ conn[last.c].rendered = conn[last.c].props
    /\ conn[last.c].rendered # Undef

\* C8: a call of onStateChange or of the componentDidUpdate hook of a detached
\* component, by a loop that was running when it was detached, raises nothing,
\* leaves its selector as it was (shouldComponentUpdate = FALSE), calls neither
\* setState nor notifyNestedSubs and starts no loop.
C8_DetachedInert ==
    (last.op \in {"onStateChange", "componentDidUpdate"}
        /\ conn[last.c].life = "detached") =>
        /\ ~fault
        /\ ~last.ran
        /\ Sel(conn[last.c]) = last.pre
        /\ ~conn[last.c].shouldComponentUpdate
        /\ ~last.requested /\ ~conn[last.c].pending
        /\ ~last.forwarded
        /\ stack # <<>> /\ Top.called # <<>> /\ Top.called[Len(Top.called)] = last.c

\* A detached component is called although the store state changed under it.
C8_Witness ==
    /\ last.op = "onStateChange" /\ conn[last.c].life = "detached"
    /\ ~sourceSelectorThrows(last.c, store.state)
    /\ conn[last.c].props # sourceSelector(last.c, store.state, conn[last.c].own)

\* C9: no exception escapes a notification loop, also when a listener of its
\* snapshot is detached during the loop: every running loop has called each
\* listener of its snapshot before its position exactly once and in order, and
\* it returns only past the last one.
NoDuplicates(s) == \A i, j \in 1..Len(s) : s[i] = s[j] => i = j
C9_SafeMidPassDetach ==
    /\ ~fault
    /\ last.op = "dispatch" => stack # <<>>
    /\ \A j \in 1..Len(stack) :
          /\ stack[j].called = SubSeq(stack[j].ls, 1, stack[j].i - 1)
          /\ stack[j].i <= Len(stack[j].ls) + 1
          /\ NoDuplicates(stack[j].ls)
          /\ j < Len(stack) => stack[j].i > 1

\* The loop of a component called a listener that was detached during the loop
\* and then its sibling, which is attached.
C9_Witness ==
    /\ stack # <<>> /\ Top.kind = "notify" /\ Top.src # 0
    /\ Len(Top.ls) >= 2 /\ Top.i = 3
    /\ conn[Top.ls[1]].life = "detached"
    /\ conn[Top.ls[2]].life = "mounted"
    /\ last.op = "onStateChange" /\ last.c = Top.ls[2] /\ last.ran

\* C10: componentDidMount of a component that handles state changes re-runs the
\* selector and, if it asks for it, updates at once: when it has completed,
\* either the derivation threw on the current state and the render raised the
\* error, or the props rendered last are the derivation of the current state.
C10_NoMissedChangeAtMount ==
    (last.op = "mount" /\ shouldHandleStateChanges(last.c)) =>
        /\ isSubscribed(conn[last.c])
        /\ ~conn[last.c].shouldComponentUpdate /\ ~conn[last.c].pending
        /\ IF Threw
           THEN conn[last.c].error = "Error" /\ conn[last.c].raised
           ELSE /\ conn[last.c].rendered = NextProps
                /\ ~conn[last.c].raised

\* The state changed between the constructor and componentDidMount, no
\* notification reached the component, and the mount rendered the new props.
C10_Witness ==
    /\ last.op = "mount" /\ last.ran /\ ~Threw
    /\ ~last.pre.shouldComponentUpdate /\ last.post.shouldComponentUpdate
    /\ last.pre.error = "null"
    /\ last.post.props # last.pre.props
    /\ conn[last.c].rendered = last.post.props

\* C11: an input change re-runs the selector on the new inputs, and the
\* component is rendered in that step exactly when shouldComponentUpdate is TRUE
\* after the run; a run that changes nothing of a selector with no flag set causes
\* no render.  Every attached child of a component whose render succeeded has
\* the own props that render passed, and its selector ran last on them; no
\* attached component keeps a set flag without a render or a pending setState.
C11_InputChange ==
    /\ last.op = "input" =>
          /\ last.ran
          /\ conn[last.c].ranAt = [s |-> store.state, own |-> conn[last.c].own]
          /\ conn[last.c].updated <=> last.post.shouldComponentUpdate
          /\ (last.post = last.pre /\ ~last.pre.shouldComponentUpdate) =>
                /\ ~conn[last.c].updated
                /\ \A d \in Comps : ~conn[d].updated
    /\ \A d \in Comps \ {1} :
          (Attached(d) /\ Attached(TreeParent(d)) /\ ~conn[TreeParent(d)].raised) =>
              /\ conn[d].own = passedProps(conn, TreeParent(d), d)
              /\ conn[d].ranAt.own = conn[d].own
    /\ \A c \in Comps :
          (Attached(c) /\ conn[c].shouldComponentUpdate) => conn[c].pending

\* An input change of the root found a change and rendered it, and the render
\* passed new own props to a child, which rendered them.
C11_Witness ==
    /\ last.op = "input" /\ last.post.shouldComponentUpdate
    /\ conn[1].updated /\ ~conn[1].raised
    /\ \E d \in SeqToSet(ChildrenOf(1)) :
          /\ cfg[d].takesProps /\ conn[d].updated /\ ~conn[d].raised
          /\ conn[d].rendered.op = conn[1].rendered.sp
          /\ conn[d].rendered.op # 0

\* C12: shouldComponentUpdate is consumed by the render: a component rendered
\* in a step has the flag FALSE when the step is over.  Once a render has
\* committed and the flag is FALSE, the flag becomes TRUE only by a selector.run
\* whose derivation throws or returns another props reference: in the step of
\* that run (recorded in last), and from one state to the next.
C12_NeedsUpdateConsumed ==
    /\ [](\A c \in Comps :
            (Attached(c) /\ conn[c].updated) => ~conn[c].shouldComponentUpdate)
    /\ []((last.ran /\ ~last.pre.shouldComponentUpdate /\ last.pre.error = "null"
            /\ last.post.shouldComponentUpdate) =>
              (Threw \/ last.post.props # last.pre.props))
    /\ [][\A c \in Comps :
            (/\ Attached(c) /\ ~conn[c].raised /\ ~conn[c].shouldComponentUpdate
             /\ conn'[c].life = conn[c].life
             /\ conn'[c].shouldComponentUpdate) =>
                /\ last'.op = "onStateChange" /\ last'.c = c /\ last'.ran
                /\ \/ sourceSelectorThrows(c, store'.state)
                   \/ conn'[c].props # conn[c].props]_vars

\* A component committed an update in this cycle, and the notification that
\* reached it afterwards found no change: the flag stays FALSE.
C12_Witness ==
    /\ Notified /\ last.ran /\ ~Threw
    /\ conn[last.c].commits >= 1
    /\ ~last.pre.shouldComponentUpdate /\ last.post = last.pre
    /\ ~conn[last.c].shouldComponentUpdate

\* The number of times component c is registered as a listener, with the store
\* and with the Subscriptions of the components.
Occurrences(s, x) == Cardinality({i \in 1..Len(s) : s[i] = x})
RECURSIVE NestedRegistrations(_, _, _)
NestedRegistrations(w, c, n) ==
    IF n = 0 THEN 0
    ELSE Occurrences(w.conn[n].listeners, c) + NestedRegistrations(w, c, n - 1)
Registrations(w, c) == Occurrences(w.listeners, c) + NestedRegistrations(w, c, NComps)

\* C13: trySubscribe and tryUnsubscribe are idempotent and raise nothing: in
\* every state, for every component that has a Subscription, calling either
\* twice gives what calling it once gives.  A subscribed component is registered
\* exactly once, with the Subscription it has as parent (or with the store), also
\* when a descendant subscribed it before its own componentDidMount; one
\* tryUnsubscribe leaves no registration, and a component without a
\* subscription (detached included) has none.
C13_IdempotentSubscribe ==
    /\ ~fault
    /\ \A c \in Comps :
          /\ conn[c].subscription =>
                /\ trySubscribe(trySubscribe(World, c), c) = trySubscribe(World, c)
                /\ tryUnsubscribe(tryUnsubscribe(World, c), c) = tryUnsubscribe(World, c)
                /\ Registrations(trySubscribe(World, c), c) = 1
                /\ Registrations(tryUnsubscribe(World, c), c) = 0
          /\ Registrations(World, c) = IF isSubscribed(conn[c]) THEN 1 ELSE 0
          /\ isSubscribed(conn[c]) =>
                IF conn[c].parentSub = 0
                THEN Occurrences(store.listeners, c) = 1
                ELSE Occurrences(conn[conn[c].parentSub].listeners, c) = 1

\* componentDidMount of a component that the componentDidMount of a child had
\* subscribed already: it is registered once.
C13_Witness ==
    /\ last.op = "mount" /\ conn[last.c].listeners # <<>>
    /\ isSubscribed(conn[last.c])
    /\ Registrations(World, last.c) = 1
    /\ \E d \in SeqToSet(conn[last.c].listeners) : isSubscribed(conn[d])

\* The arguments of connect() that match resolves, and the factories of each.
Stages == {"mapStateToProps", "mapDispatchToProps", "mergeProps"}
factoriesOf(name) ==
    CASE name = "mapStateToProps" -> setup.factories
      [] name = "mapDispatchToProps" -> mapDispatchToPropsFactories
      [] OTHER -> mergePropsFactories
\* The stages whose argument no factory accepts.
Unresolved ==
    {name \in Stages : \A i \in 1..Len(factoriesOf(name)) :
                           setup.args[name] \notin factoriesOf(name)[i]}
\* connect() was called with a component and with an argument no factory accepts.
BadArgument ==
    /\ setup.phase # "idle"
    /\ setup.WrappedComponent.type = "function"
    /\ Unresolved # {}

\* C14 as stated: once connect() was called with an argument that no factory
\* accepts, the configuration error has been raised.
C14_ConfigErrorAsStated ==
    BadArgument => (setup.phase = "failed" /\ setup.error.kind = "argument")

\* C14 as amended: connect() raises nothing for such an argument; the error is
\* raised when the component is constructed (initSelector), so the component is
\* never constructed or attached, and the error names an argument no factory
\* accepts, its type, and the component being connected.
C14_ConfigError ==
    /\ setup.phase = "connected" => setup.error = NoError
    /\ BadArgument => setup.phase \in {"connected", "failed"}
    /\ (BadArgument /\ setup.hasStore /\ setup.phase = "failed") =>
          /\ setup.error.kind = "argument"
          /\ setup.error.name \in Unresolved
          /\ setup.error.type = setup.args[setup.error.name]
          /\ setup.error.component = wrappedComponentName(setup.WrappedComponent)
          /\ setup.error.component # ""

\* The constructor failed on a mergeProps that no factory accepts, the other
\* arguments being resolved.
C14_Witness ==
    /\ BadArgument /\ setup.phase = "failed"
    /\ Unresolved = {"mergeProps"}
    /\ setup.error.kind = "argument" /\ setup.error.name = "mergeProps"
    /\ setup.error.component = "A"

\* The factories of a list that accept arg, and the numbers n down to m.
Accepting(arg, factories) == {i \in 1..Len(factories) : arg \in factories[i]}
Maximum(S) == CHOOSE i \in S : \A j \in S : j <= i
Descending(n, m) == [k \in 1..(n - m + 1) |-> n - k + 1]
\* What match has to return for arg and the list factories.
MatchesLastFirst(m, arg, factories) ==
    IF Accepting(arg, factories) = {}
    THEN /\ m.result.thrower
         /\ m.consulted = Descending(Len(factories), 1)
    ELSE /\ ~m.result.thrower
         /\ m.result.by = Maximum(Accepting(arg, factories))
         /\ m.consulted = Descending(Len(factories), m.result.by)

\* C17: match calls the factories from the last to the first and returns the
\* result of the first that accepts the argument: the accepting factory
\* registered last wins, and no factory before it is called.  For the list of
\* factories at hand and every type of argument, and for what initSelector
\* resolved.
C17_MatchLastToFirst ==
    /\ \A arg \in ArgTypes :
          MatchesLastFirst(match(arg, setup.factories, "mapStateToProps"),
                           arg, setup.factories)
    /\ setup.resolved # <<>> =>
          \A name \in Stages :
              MatchesLastFirst(setup.resolved[name], setup.args[name], factoriesOf(name))

\* initSelector resolved an argument that both factories of the list accept:
\* the second one won and the first one was not called.
C17_Witness ==
    /\ setup.resolved # <<>>
    /\ Len(setup.factories) = 2
    /\ Accepting(setup.args.mapStateToProps, setup.factories) = {1, 2}
    /\ setup.resolved.mapStateToProps.result.by = 2
    /\ setup.resolved.mapStateToProps.consulted = <<2>>

\* C15: an attached child has as context handle the Subscription of its parent
\* when the parent took the store from context and has a Subscription, else
\* the context handle of the parent itself.  The Subscription of a component
\* has as parent the handle from props when the store came from props and the
\* handle from context when it came from context, and it is with that parent
\* (the store when there is none) that a subscribed component is registered.
C15_HandlePropagation ==
    /\ \A d \in Comps \ {1} :
          (Attached(d) /\ Attached(TreeParent(d))) =>
              conn[d].context =
                  IF ~cfg[TreeParent(d)].propsMode /\ conn[TreeParent(d)].subscription
                  THEN TreeParent(d)
                  ELSE conn[TreeParent(d)].context
    /\ \A c \in Comps :
          (Attached(c) /\ conn[c].subscription) =>
              /\ cfg[c].propsMode => conn[c].parentSub = conn[c].propSub
              /\ ~cfg[c].propsMode => conn[c].parentSub = conn[c].context
              /\ isSubscribed(conn[c]) =>
                    IF conn[c].parentSub = 0
                    THEN c \in SeqToSet(store.listeners)
                    ELSE c \in SeqToSet(conn[conn[c].parentSub].listeners)

\* Under a parent in props mode that has a Subscription, a child in context
\* mode is subscribed to the handle the parent got from context (here the
\* store), and a child in props mode to the handle from props, which differs
\* from its context handle.
C15_Witness ==
    \E p \in Comps, d, e \in Comps \ {1} :
        /\ TreeParent(d) = p /\ TreeParent(e) = p
        /\ cfg[p].propsMode /\ isSubscribed(conn[p])
        /\ ~cfg[d].propsMode /\ isSubscribed(conn[d])
        /\ conn[d].parentSub = conn[p].context /\ d \in SeqToSet(store.listeners)
        /\ cfg[e].propsMode /\ isSubscribed(conn[e])
        /\ conn[e].parentSub = p /\ conn[e].context # p

\* C16: a component connected without mapStateToProps has no Subscription in
\* any state of its life: it is never subscribed, its isSubscribed() is FALSE,
\* it is registered nowhere and in no running loop, so its onStateChange is
\* never called.  For every component isSubscribed() is FALSE once it is
\* detached.
C16_NoMapStateNoSubscription ==
    /\ \A c \in Comps :
          cfg[c].mapState = "none" =>
              /\ ~conn[c].subscription /\ ~conn[c].unsubscribe
              /\ ~isSubscribed(conn[c])
              /\ Registrations(World, c) = 0
              /\ \A j \in 1..Len(stack) : c \notin SeqToSet(stack[j].ls)
              /\ ~conn[c].componentDidUpdate /\ ~conn[c].pending
    /\ last.op = "onStateChange" => cfg[last.c].mapState # "none"
    /\ \A c \in Comps : conn[c].life = "detached" => ~isSubscribed(conn[c])

\* The store notifies a component whose parent is mounted and connected
\* without mapStateToProps, and a component subscribed before is detached.
C16_Witness ==
    /\ Notified /\ last.src = 0 /\ last.requested
    /\ last.c # 1
    /\ cfg[TreeParent(last.c)].mapState = "none"
    /\ conn[TreeParent(last.c)].life = "mounted"
    /\ \E d \in Comps : conn[d].life = "detached" /\ d \in SeqToSet(Top.ls)

\* C18: no selector.run changes shouldComponentUpdate from TRUE to FALSE,
\* whether it finds a change or not; from one state to the next the flag of a
\* component goes from TRUE to FALSE only in a step that renders the component
\* or detaches it.
C18_NeedsUpdateSticky ==
    /\ []((last.ran /\ last.pre.shouldComponentUpdate) =>
              last.post.shouldComponentUpdate)
    /\ [][\A c \in Comps :
            (conn[c].shouldComponentUpdate /\ ~conn'[c].shouldComponentUpdate) =>
                (conn'[c].updated \/ conn'[c].life = "detached")]_vars

\* A notification found the flag set by an earlier run and no further change:
\* the flag is still set, the change it stands for still to be rendered.
C18_Witness ==
    /\ Notified /\ last.ran /\ ~Threw
    /\ last.pre.shouldComponentUpdate /\ last.post = last.pre
    /\ conn[last.c].shouldComponentUpdate
    /\ conn[last.c].rendered # conn[last.c].props

\* The componentDidUpdate call of component c is owed by a frame of the stack.
DidUpdateOwed(c) ==
    \E j \in 1..Len(stack) :
        /\ stack[j].kind = "cdu"
        /\ \E n \in stack[j].i..Len(stack[j].ls) : stack[j].ls[n] = c
\* The notifyNestedSubs for the last notification of component c that asked
\* for a visual update is still to come, and it will: the setState is pending,
\* or the update committed and its componentDidUpdate call is owed.
ForwardScheduled(c) ==
    \/ conn[c].since = "requested" /\ conn[c].pending
    \/ conn[c].since = "committed" /\ DidUpdateOwed(c)

\* C19 as stated: the notifyNestedSubs of an attached component is called in
\* the notification itself, or it stays scheduled until it is called, also
\* when the render that was asked for raises the stored error.
C19_NotificationNeverLostAsStated ==
    /\ (Notified /\ ~last.requested) => last.forwarded
    /\ \A c \in Comps :
          (Attached(c) /\ conn[c].since # "idle") => ForwardScheduled(c)

\* C19 as amended: the notifyNestedSubs of an attached component is called in
\* the notification itself, or it stays scheduled until it is called, or the
\* render that was asked for raised the stored error: then no commit follows,
\* notifyNestedSubs is not called, and the componentDidUpdate hook stays set
\* for the next render that commits.
C19_NotificationNeverLost ==
    /\ (Notified /\ ~last.requested) => last.forwarded
    /\ \A c \in Comps :
          (Attached(c) /\ conn[c].since # "idle") =>
              \/ ForwardScheduled(c)
              \/ /\ conn[c].since = "requested"
                 /\ conn[c].raised /\ conn[c].error = "Error"
                 /\ conn[c].componentDidUpdate

\* The derivation threw in a notification of a component with listeners of its
\* own, the render raised the error, and the notification loop is over without
\* a call of its notifyNestedSubs.
C19_Witness ==
    /\ stack = <<>>
    /\ \E c \in Comps :
          /\ conn[c].life = "mounted" /\ conn[c].since = "requested"
          /\ conn[c].raised /\ ~conn[c].pending
          /\ conn[c].componentDidUpdate
          /\ \E d \in SeqToSet(conn[c].listeners) :
                /\ conn[d].life = "mounted"
                /\ conn[d].ranAt.s # store.state

\* C20 as stated: between two dispatches no attached component commits more
\* than one visual update.
C20_NoRedundantUpdateAsStated ==
    \A c \in Comps : Attached(c) => conn[c].commits <= 1

\* The commits of component c since the last dispatch, before the last step.
CommitsBefore(c) ==
    conn[c].commits - (IF conn[c].updated /\ ~conn[c].raised THEN 1 ELSE 0)

\* C20 as amended: a notification that reaches an attached component which
\* has committed a visual update since the last dispatch finds nothing to
\* update: it calls no setState and forwards to notifyNestedSubs at once.
C20_NoRedundantUpdate ==
    (Notified /\ CommitsBefore(last.c) >= 1) =>
        /\ ~last.requested /\ last.forwarded
        /\ last.post = last.pre
        /\ ~conn[last.c].updated

\* The parent committed and passed fresh own props to its child, which
\* rendered; the notification after the commit of the parent reaches the child.
C20_Witness ==
    /\ Notified /\ last.src # 0 /\ CommittedInCycle(last.src)
    /\ cfg[last.c].takesProps
    /\ conn[last.c].commits = 1 /\ ~conn[last.c].updated
    /\ conn[last.c].rendered.op = conn[last.src].rendered.sp
    /\ conn[last.c].rendered.op # 0
    /\ last.forwarded

====
